---- MODULE Spec2Model ----
(***************************************************************************)
(* A model of the HyParView membership engine (src/src/node.rs).           *)
(*                                                                         *)
(* A node is a record [id, actions, active_view, passive_view, options,    *)
(* panicked].  Every method of Node is an operator from a node to the SET  *)
(* of nodes the method can leave behind: one element per resolution of the *)
(* random choices the method draws from its rng.  A method that reaches a  *)
(* failing operation (gen_range on an empty range) leaves the node as it   *)
(* was at that point with panicked = TRUE, and nothing runs after it.      *)
(***************************************************************************)
EXTENDS Naturals, Sequences, FiniteSets, TLC

VARIABLES nodes, last, host

vars == <<nodes, last, host>>

(***************************************************************************)
(* Bounds of the model.                                                    *)
(***************************************************************************)
\* largest max_active_view_size a single node is constructed with
MaxActive == 2
\* largest max_passive_view_size a single node is constructed with
MaxPassive == 2
\* largest ttl of an incoming ForwardJoin / Shuffle
MaxTtl == 2
\* longest nodes list of an incoming Shuffle / ShuffleReply
MaxNodes == 2
\* most maintenance calls the host of a cluster interleaves with delivery
MaxMaint == 1
\* most actions a host that polls the four-node cluster in a free order polls
MaxPolls == 38
\* the smallest shuffle sample size a node is configured with
MinShuffle == 1
\* the number of join calls the hosts of a cluster make while walks are followed
MaxJoins == 4
\* the number of disconnect calls the hosts of an overlay make
MaxDisconnects == 1
\* the number of pending actions of a node up to which an exchange is followed
MaxPending == 10

(***************************************************************************)
(* Program constants: NodeOptions defaults.                                *)
(***************************************************************************)
DEFAULT_MAX_ACTIVE_VIEW_SIZE == 4
DEFAULT_MAX_PASSIVE_VIEW_SIZE == 24
DEFAULT_SHUFFLE_ACTIVE_VIEW_SIZE == 2
DEFAULT_SHUFFLE_PASSIVE_VIEW_SIZE == 2
DEFAULT_ACTIVE_RANDOM_WALK_LEN == 5
DEFAULT_PASSIVE_RANDOM_WALK_LEN == 2

NodeOptionsDefault ==
    [max_active_view_size |-> DEFAULT_MAX_ACTIVE_VIEW_SIZE,
     max_passive_view_size |-> DEFAULT_MAX_PASSIVE_VIEW_SIZE,
     shuffle_active_view_size |-> DEFAULT_SHUFFLE_ACTIVE_VIEW_SIZE,
     shuffle_passive_view_size |-> DEFAULT_SHUFFLE_PASSIVE_VIEW_SIZE,
     active_random_walk_len |-> DEFAULT_ACTIVE_RANDOM_WALK_LEN,
     passive_random_walk_len |-> DEFAULT_PASSIVE_RANDOM_WALK_LEN]

(***************************************************************************)
(* Node identifiers.  Local is the node under test of the single-node      *)
(* specification; the others are the peers its host talks about.           *)
(***************************************************************************)
Local == "foo"
Ids == {"foo", "bar", "baz", "qux"}

(***************************************************************************)
(* Sequence helpers (Vec / slice / iterator operations).                   *)
(***************************************************************************)
Range(v) == {v[k] : k \in 1..Len(v)}

Contains(v, x) == \E k \in 1..Len(v) : v[k] = x

\* iter().position(|n| n == x): the first index holding x, 0 when none
Position(v, x) ==
    IF Contains(v, x)
    THEN CHOOSE k \in 1..Len(v) : v[k] = x /\ \A j \in 1..(k - 1) : v[j] # x
    ELSE 0

\* Vec::swap_remove(i): the last element takes the place of the removed one
SwapRemove(v, i) ==
    [k \in 1..(Len(v) - 1) |-> IF k = i THEN v[Len(v)] ELSE v[k]]

\* slice::swap(i, j)
Swap(v, i, j) ==
    [k \in 1..Len(v) |-> IF k = i THEN v[j] ELSE IF k = j THEN v[i] ELSE v[k]]

\* iter().take(n)
Take(v, n) == SubSeq(v, 1, IF n < Len(v) THEN n ELSE Len(v))

\* rng.shuffle(v): every ordering of v
Shuffles(v) ==
    {[k \in 1..Len(v) |-> v[p[k]]] :
        p \in {q \in [1..Len(v) -> 1..Len(v)] :
                  \A a, b \in 1..Len(v) : q[a] = q[b] => a = b}}

\* sequences over S of length at most n
SeqsUpTo(S, n) == UNION {[1..k -> S] : k \in 0..n}

\* Option<T>
None == <<>>
Some(x) == <<x>>

(***************************************************************************)
(* TimeToLive (src/src/ttl.rs): an unsigned 8-bit hop counter.             *)
(***************************************************************************)
TimeToLive_new(ttl) == ttl % 256
as_u8(ttl) == ttl
is_expired(ttl) == ttl = 0
\* decrement that leaves the ttl as it is
decrement_keep(ttl) == ttl

decrement(ttl) == IF ttl = 0 THEN 0 ELSE ttl - 1

(***************************************************************************)
(* Protocol messages (src/src/message.rs).                                 *)
(***************************************************************************)
msg_join(sender) == [type |-> "Join", sender |-> sender]
msg_forward_join(sender, new_node, ttl) ==
    [type |-> "ForwardJoin", sender |-> sender, new_node |-> new_node, ttl |-> ttl]
msg_neighbor(sender, high_priority) ==
    [type |-> "Neighbor", sender |-> sender, high_priority |-> high_priority]
msg_shuffle(sender, origin, ns, ttl) ==
    [type |-> "Shuffle", sender |-> sender, origin |-> origin, nodes |-> ns, ttl |-> ttl]
msg_shuffle_reply(sender, ns) ==
    [type |-> "ShuffleReply", sender |-> sender, nodes |-> ns]
msg_disconnect(sender, alive) ==
    [type |-> "Disconnect", sender |-> sender, alive |-> alive]

(***************************************************************************)
(* Actions and events (src/src/action.rs, src/src/event.rs).               *)
(***************************************************************************)
Action_send(destination, message) ==
    [type |-> "Send", destination |-> destination, message |-> message]
Action_disconnect(node) == [type |-> "Disconnect", node |-> node]
Action_notify_up(node) == [type |-> "Notify", event |-> "NeighborUp", node |-> node]
Action_notify_down(node) == [type |-> "Notify", event |-> "NeighborDown", node |-> node]

\* fn send(actions, destination, message)
send(s, destination, message) ==
    [s EXCEPT !.actions = Append(@, Action_send(destination, message))]

push_back(s, action) == [s EXCEPT !.actions = Append(@, action)]

(***************************************************************************)
(* Node construction.                                                      *)
(***************************************************************************)
with_options(node_id, options) ==
    [id |-> node_id, actions |-> <<>>, active_view |-> <<>>,
     passive_view |-> <<>>, options |-> options, panicked |-> FALSE]

\* a failing operation: the call never returns
Panic(s) == [s EXCEPT !.panicked = TRUE]

\* run F on every outcome of the previous step that did not panic
Then(S, F(_)) == UNION {IF s.panicked THEN {s} ELSE F(s) : s \in S}

(***************************************************************************)
(* Node: the view store (src/src/node.rs, private methods).                *)
(***************************************************************************)
\* the fullness test with > in place of >=
is_active_view_full_strict(s) ==
    Len(s.active_view) > s.options.max_active_view_size

is_active_view_full(s) ==
    Len(s.active_view) >= s.options.max_active_view_size

is_passive_view_full(s) ==
    Len(s.passive_view) >= s.options.max_passive_view_size

remove_from_passive_view(s, node) ==
    IF Position(s.passive_view, node) # 0
    THEN [s EXCEPT !.passive_view = SwapRemove(@, Position(s.passive_view, node))]
    ELSE s

\* rng.gen_range(0, len) panics on the empty range
remove_random_from_passive_view_if_full(s) ==
    IF is_passive_view_full(s)
    THEN IF Len(s.passive_view) = 0
         THEN {Panic(s)}
         ELSE {[s EXCEPT !.passive_view = SwapRemove(@, i)] :
                  i \in 1..Len(s.passive_view)}
    ELSE {s}

\* add_to_passive_view that does not make room in a full passive view
add_to_passive_view_no_evict(s, node) ==
    IF Contains(s.active_view, node) \/ Contains(s.passive_view, node) \/ node = s.id
    THEN {s}
    ELSE {[s EXCEPT !.passive_view = Append(@, node)]}

\* add_to_passive_view that does not look at the active view
add_to_passive_view_no_active_check(s, node) ==
    IF Contains(s.passive_view, node) \/ node = s.id
    THEN {s}
    ELSE Then(remove_random_from_passive_view_if_full(s),
              LAMBDA t : {[t EXCEPT !.passive_view = Append(@, node)]})

\* add_to_passive_view that does not look for node in the passive view
add_to_passive_view_no_dup_check(s, node) ==
    IF Contains(s.active_view, node) \/ node = s.id
    THEN {s}
    ELSE Then(remove_random_from_passive_view_if_full(s),
              LAMBDA t : {[t EXCEPT !.passive_view = Append(@, node)]})

add_to_passive_view(s, node) ==
    IF Contains(s.active_view, node) \/ Contains(s.passive_view, node) \/ node = s.id
    THEN {s}
    ELSE Then(remove_random_from_passive_view_if_full(s),
              LAMBDA t : {[t EXCEPT !.passive_view = Append(@, node)]})

\* remove_from_active_view_by_index that does not keep the removed peer in
\* the passive view
remove_from_active_view_by_index_forget(s, i) ==
    LET node == s.active_view[i]
        t0 == [s EXCEPT !.active_view = SwapRemove(@, i)]
        t1 == send(t0, node, msg_disconnect(s.id, TRUE))
        t2 == push_back(t1, Action_disconnect(node))
    IN  {push_back(t2, Action_notify_down(node))}

\* remove_from_active_view_by_index that does not tell the peer
remove_from_active_view_by_index_untold(s, i) ==
    LET node == s.active_view[i]
        t0 == [s EXCEPT !.active_view = SwapRemove(@, i)]
        t2 == push_back(t0, Action_disconnect(node))
        t3 == push_back(t2, Action_notify_down(node))
    IN  add_to_passive_view(t3, node)

\* remove_from_active_view_by_index that tears the connection down before
\* it sends the Disconnect message
remove_from_active_view_by_index_disconnect_first(s, i) ==
    LET node == s.active_view[i]
        t0 == [s EXCEPT !.active_view = SwapRemove(@, i)]
        t1 == push_back(t0, Action_disconnect(node))
        t2 == send(t1, node, msg_disconnect(s.id, TRUE))
        t3 == push_back(t2, Action_notify_down(node))
    IN  add_to_passive_view(t3, node)

remove_from_active_view_by_index(s, i) ==
    LET node == s.active_view[i]
        t0 == [s EXCEPT !.active_view = SwapRemove(@, i)]
        t1 == send(t0, node, msg_disconnect(s.id, TRUE))
        t2 == push_back(t1, Action_disconnect(node))
        t3 == push_back(t2, Action_notify_down(node))
    IN  add_to_passive_view(t3, node)

\* the outcomes are pairs [st, ret]: the node and the returned bool
remove_from_active_view(s, node) ==
    IF Position(s.active_view, node) # 0
    THEN {[st |-> t, ret |-> TRUE] :
             t \in remove_from_active_view_by_index(s, Position(s.active_view, node))}
    ELSE {[st |-> s, ret |-> FALSE]}

remove_random_from_active_view_if_full(s) ==
    IF is_active_view_full(s)
    THEN IF Len(s.active_view) = 0
         THEN {Panic(s)}
         ELSE UNION {remove_from_active_view_by_index(s, i) :
                        i \in 1..Len(s.active_view)}
    ELSE {s}

\* add_to_active_view that does not look for node in the active view
add_to_active_view_no_dup_check(s, node, high_priority) ==
    IF node = s.id
    THEN {s}
    ELSE Then(remove_random_from_active_view_if_full(s),
              LAMBDA t :
                LET t1 == remove_from_passive_view(t, node)
                    t2 == [t1 EXCEPT !.active_view = Append(@, node)]
                    t3 == send(t2, node, msg_neighbor(t2.id, high_priority))
                IN  {push_back(t3, Action_notify_up(node))})

\* add_to_active_view that does not compare node with the local id
add_to_active_view_no_self_check(s, node, high_priority) ==
    IF Contains(s.active_view, node)
    THEN {s}
    ELSE Then(remove_random_from_active_view_if_full(s),
              LAMBDA t :
                LET t1 == remove_from_passive_view(t, node)
                    t2 == [t1 EXCEPT !.active_view = Append(@, node)]
                    t3 == send(t2, node, msg_neighbor(t2.id, high_priority))
                IN  {push_back(t3, Action_notify_up(node))})

\* add_to_active_view that admits a peer without a NeighborUp notification
add_to_active_view_silent(s, node, high_priority) ==
    IF Contains(s.active_view, node) \/ node = s.id
    THEN {s}
    ELSE Then(remove_random_from_active_view_if_full(s),
              LAMBDA t :
                LET t1 == remove_from_passive_view(t, node)
                    t2 == [t1 EXCEPT !.active_view = Append(@, node)]
                IN  {send(t2, node, msg_neighbor(t2.id, high_priority))})

\* add_to_active_view that notifies before it sends the Neighbor message
add_to_active_view_notify_first(s, node, high_priority) ==
    IF Contains(s.active_view, node) \/ node = s.id
    THEN {s}
    ELSE Then(remove_random_from_active_view_if_full(s),
              LAMBDA t :
                LET t1 == remove_from_passive_view(t, node)
                    t2 == [t1 EXCEPT !.active_view = Append(@, node)]
                    t3 == push_back(t2, Action_notify_up(node))
                IN  {send(t3, node, msg_neighbor(t2.id, high_priority))})

add_to_active_view(s, node, high_priority) ==
    IF Contains(s.active_view, node) \/ node = s.id
    THEN {s}
    ELSE Then(remove_random_from_active_view_if_full(s),
              LAMBDA t :
                LET t1 == remove_from_passive_view(t, node)
                    t2 == [t1 EXCEPT !.active_view = Append(@, node)]
                    t3 == send(t2, node, msg_neighbor(t2.id, high_priority))
                IN  {push_back(t3, Action_notify_up(node))})

RECURSIVE add_shuffled_nodes_to_passive_view(_, _)
add_shuffled_nodes_to_passive_view(s, ns) ==
    IF ns = <<>>
    THEN {s}
    ELSE Then(add_to_passive_view(s, Head(ns)),
              LAMBDA t : add_shuffled_nodes_to_passive_view(t, Tail(ns)))

\* disconnect_unless_active_view_node that does not compare node with the
\* local id
\* a variant that closes the connection to the sender whether or not the
\* sender is an active peer
disconnect_unless_active_view_node_any(s, node) ==
    IF s.id # node
    THEN {push_back(send(s, node, msg_disconnect(s.id, TRUE)), Action_disconnect(node))}
    ELSE {s}

disconnect_unless_active_view_node_no_self_check(s, node) ==
    IF ~Contains(s.active_view, node)
    THEN {push_back(send(s, node, msg_disconnect(s.id, TRUE)), Action_disconnect(node))}
    ELSE {s}

disconnect_unless_active_view_node(s, node) ==
    IF ~Contains(s.active_view, node) /\ s.id # node
    THEN {push_back(send(s, node, msg_disconnect(s.id, TRUE)), Action_disconnect(node))}
    ELSE {s}

\* the while loop of select_forwarding_destination: the excluded members are
\* swapped behind position tail; the result is <<active_view, tail>>
RECURSIVE sfd_partition(_, _, _, _)
sfd_partition(v, i, tail, excludes) ==
    IF i <= tail /\ tail # 0
    THEN IF v[i] \in excludes
         THEN sfd_partition(Swap(v, i, tail), i, tail - 1, excludes)
         ELSE sfd_partition(v, i + 1, tail, excludes)
    ELSE <<v, tail>>

\* select_forwarding_destination that picks among all the active members
select_forwarding_destination_any(s, excludes) ==
    IF Len(s.active_view) = 0
    THEN {[st |-> s, ret |-> None]}
    ELSE {[st |-> s, ret |-> Some(s.active_view[i])] : i \in 1..Len(s.active_view)}

\* the outcomes are pairs [st, ret], ret an Option<T>
select_forwarding_destination(s, excludes) ==
    LET p == sfd_partition(s.active_view, 1, Len(s.active_view), excludes)
        t == [s EXCEPT !.active_view = p[1]]
    IN  IF p[2] = 0
        THEN {[st |-> t, ret |-> None]}
        ELSE {[st |-> t, ret |-> Some(t.active_view[i])] : i \in 1..p[2]}

\* the possible results: a set of Option<T>
select_random_from_active_view(s) ==
    IF Len(s.active_view) = 0
    THEN {None}
    ELSE {Some(s.active_view[i]) : i \in 1..Len(s.active_view)}

select_random_from_passive_view(s) ==
    IF Len(s.passive_view) = 0
    THEN {None}
    ELSE {Some(s.passive_view[i]) : i \in 1..Len(s.passive_view)}

(***************************************************************************)
(* Node: periodic maintenance and message handlers.                        *)
(***************************************************************************)
\* fill_active_view that always asks with low priority
fill_active_view_low_priority(s) ==
    IF ~is_active_view_full(s)
    THEN {IF r = None
          THEN s
          ELSE send(s, r[1], msg_neighbor(s.id, FALSE)) :
             r \in select_random_from_passive_view(s)}
    ELSE {s}

fill_active_view(s) ==
    IF ~is_active_view_full(s)
    THEN {IF r = None
          THEN s
          ELSE send(s, r[1], msg_neighbor(s.id, Len(s.active_view) = 0)) :
             r \in select_random_from_passive_view(s)}
    ELSE {s}

sync_active_view(s) ==
    {[s EXCEPT !.actions = @ \o
         [k \in 1..Len(s.active_view) |->
             Action_send(s.active_view[k], msg_neighbor(s.id, FALSE))]]}

\* shuffle_passive_view that samples the whole of both views
shuffle_passive_view_whole_views(s) ==
    UNION {IF r = None
           THEN {s}
           ELSE {LET t == [s EXCEPT !.passive_view = pv, !.active_view = av]
                     ns == pv \o av \o <<s.id>>
                     ttl == TimeToLive_new(s.options.active_random_walk_len)
                 IN  send(t, r[1], msg_shuffle(s.id, s.id, ns, ttl)) :
                    pv \in Shuffles(s.passive_view), av \in Shuffles(s.active_view)} :
              r \in select_random_from_active_view(s)}

shuffle_passive_view(s) ==
    UNION {IF r = None
           THEN {s}
           ELSE {LET t == [s EXCEPT !.passive_view = pv, !.active_view = av]
                     pv_size == s.options.shuffle_passive_view_size
                     av_size == s.options.shuffle_active_view_size
                     ns == Take(pv, pv_size) \o Take(av, av_size) \o <<s.id>>
                     ttl == TimeToLive_new(s.options.active_random_walk_len)
                 IN  send(t, r[1], msg_shuffle(s.id, s.id, ns, ttl)) :
                    pv \in Shuffles(s.passive_view), av \in Shuffles(s.active_view)} :
              r \in select_random_from_active_view(s)}

\* poll_action that takes the action enqueued last
poll_action_pop_back(s) ==
    IF s.actions = <<>>
    THEN [st |-> s, ret |-> None]
    ELSE [st |-> [s EXCEPT !.actions = SubSeq(@, 1, Len(@) - 1)],
          ret |-> Some(s.actions[Len(s.actions)])]

\* the outcomes are pairs [st, ret], ret an Option<Action>
poll_action(s) ==
    IF s.actions = <<>>
    THEN [st |-> s, ret |-> None]
    ELSE [st |-> [s EXCEPT !.actions = Tail(@)], ret |-> Some(Head(s.actions))]

\* handle_join that forwards the join to the joiner as well
handle_join_forward_all(s, m) ==
    LET new_node == m.sender
    IN  Then(add_to_active_view(s, new_node, TRUE),
             LAMBDA t :
               LET ttl == TimeToLive_new(t.options.active_random_walk_len)
               IN  {[t EXCEPT !.actions = @ \o
                        [k \in 1..Len(t.active_view) |->
                            Action_send(t.active_view[k],
                                        msg_forward_join(t.id, new_node, ttl))]]})

\* handle_join that admits the joiner and forwards nothing
handle_join_no_forward(s, m) ==
    add_to_active_view(s, m.sender, TRUE)

handle_join(s, m) ==
    LET new_node == m.sender
    IN  Then(add_to_active_view(s, new_node, TRUE),
             LAMBDA t :
               LET ttl == TimeToLive_new(t.options.active_random_walk_len)
                   others == SelectSeq(t.active_view, LAMBDA n : n # new_node)
               IN  {[t EXCEPT !.actions = @ \o
                        [k \in 1..Len(others) |->
                            Action_send(others[k],
                                        msg_forward_join(t.id, new_node, ttl))]]})

\* handle_forward_join that forwards the walk back to its sender
handle_forward_join_to_sender(s, m) ==
    IF is_expired(m.ttl) \/ Len(s.active_view) = 0
    THEN add_to_active_view(s, m.new_node, TRUE)
    ELSE Then(IF as_u8(m.ttl) = s.options.passive_random_walk_len
              THEN add_to_passive_view(s, m.new_node)
              ELSE {s},
              LAMBDA t :
                UNION {IF r.ret # None
                       THEN {send(r.st, r.ret[1],
                                  msg_forward_join(t.id, m.new_node, decrement(m.ttl)))}
                       ELSE add_to_active_view(r.st, m.new_node, TRUE) :
                          r \in select_forwarding_destination(t, {})})

\* handle_forward_join that never inserts the joiner into the passive view
handle_forward_join_no_passive(s, m) ==
    IF is_expired(m.ttl) \/ Len(s.active_view) = 0
    THEN add_to_active_view(s, m.new_node, TRUE)
    ELSE UNION {IF r.ret # None
                THEN {send(r.st, r.ret[1],
                           msg_forward_join(s.id, m.new_node, decrement(m.ttl)))}
                ELSE add_to_active_view(r.st, m.new_node, TRUE) :
                   r \in select_forwarding_destination(s, {m.sender})}

\* handle_forward_join that drops the walk when no forwarding destination is
\* left, instead of admitting the joiner
handle_forward_join_drop(s, m) ==
    IF is_expired(m.ttl) \/ Len(s.active_view) = 0
    THEN add_to_active_view(s, m.new_node, TRUE)
    ELSE Then(IF as_u8(m.ttl) = s.options.passive_random_walk_len
              THEN add_to_passive_view(s, m.new_node)
              ELSE {s},
              LAMBDA t :
                {IF r.ret # None
                 THEN send(r.st, r.ret[1],
                           msg_forward_join(t.id, m.new_node, decrement(m.ttl)))
                 ELSE r.st :
                    r \in select_forwarding_destination(t, {m.sender})})

handle_forward_join(s, m) ==
    IF is_expired(m.ttl) \/ Len(s.active_view) = 0
    THEN add_to_active_view(s, m.new_node, TRUE)
    ELSE Then(IF as_u8(m.ttl) = s.options.passive_random_walk_len
              THEN add_to_passive_view(s, m.new_node)
              ELSE {s},
              LAMBDA t :
                UNION {IF r.ret # None
                       THEN {send(r.st, r.ret[1],
                                  msg_forward_join(t.id, m.new_node, decrement(m.ttl)))}
                       ELSE add_to_active_view(r.st, m.new_node, TRUE) :
                          r \in select_forwarding_destination(t, {m.sender})})

\* handle_neighbor that answers with the priority of the request
handle_neighbor_same_priority(s, m) ==
    IF m.high_priority \/ ~is_active_view_full(s)
    THEN add_to_active_view(s, m.sender, m.high_priority)
    ELSE {s}

handle_neighbor(s, m) ==
    IF m.high_priority \/ ~is_active_view_full(s)
    THEN add_to_active_view(s, m.sender, FALSE)
    ELSE {s}

\* handle_shuffle that sends the reply of an expired walk back to the sender
handle_shuffle_reply_to_sender(s, m) ==
    IF is_expired(m.ttl)
    THEN UNION {LET t == [s EXCEPT !.passive_view = pv]
                    reply_nodes == Take(pv, Len(m.nodes))
                    t1 == send(t, m.sender, msg_shuffle_reply(s.id, reply_nodes))
                IN  add_shuffled_nodes_to_passive_view(t1, m.nodes) :
                   pv \in Shuffles(s.passive_view)}
    ELSE {IF r.ret # None
          THEN send(r.st, r.ret[1],
                    msg_shuffle(s.id, m.origin, m.nodes, decrement(m.ttl)))
          ELSE r.st :
             r \in select_forwarding_destination(s, {m.origin, m.sender})}

handle_shuffle(s, m) ==
    IF is_expired(m.ttl)
    THEN UNION {LET t == [s EXCEPT !.passive_view = pv]
                    reply_nodes == Take(pv, Len(m.nodes))
                    t1 == send(t, m.origin, msg_shuffle_reply(s.id, reply_nodes))
                IN  add_shuffled_nodes_to_passive_view(t1, m.nodes) :
                   pv \in Shuffles(s.passive_view)}
    ELSE {IF r.ret # None
          THEN send(r.st, r.ret[1],
                    msg_shuffle(s.id, m.origin, m.nodes, decrement(m.ttl)))
          ELSE r.st :
             r \in select_forwarding_destination(s, {m.origin, m.sender})}

handle_shuffle_reply(s, m) ==
    add_shuffled_nodes_to_passive_view(s, m.nodes)

\* handle_disconnect that forgets the sender even when it is alive
handle_disconnect_forget(s, m) ==
    UNION {IF r.ret /\ ~r.st.panicked
           THEN fill_active_view(remove_from_passive_view(r.st, m.sender))
           ELSE {r.st} :
              r \in remove_from_active_view(s, m.sender)}

handle_disconnect(s, m) ==
    Then(UNION {IF r.ret /\ ~r.st.panicked
                THEN fill_active_view(remove_from_passive_view(r.st, m.sender))
                ELSE {r.st} :
                   r \in remove_from_active_view(s, m.sender)},
         LAMBDA t : IF m.alive THEN add_to_passive_view(t, m.sender) ELSE {t})

handle_protocol_message(s, message) ==
    LET sender == message.sender
    IN  IF message.type = "Disconnect"
        THEN handle_disconnect(s, message)
        ELSE Then(CASE message.type = "Join" -> handle_join(s, message)
                    [] message.type = "ForwardJoin" -> handle_forward_join(s, message)
                    [] message.type = "Neighbor" -> handle_neighbor(s, message)
                    [] message.type = "Shuffle" -> handle_shuffle(s, message)
                    [] message.type = "ShuffleReply" -> handle_shuffle_reply(s, message),
                  LAMBDA t : disconnect_unless_active_view_node(t, sender))

join(s, contact_node_id) ==
    {send(s, contact_node_id, msg_join(s.id))}

disconnect(s, node, alive) ==
    handle_protocol_message(s, msg_disconnect(node, alive))

(***************************************************************************)
(* The single-node specification: one Node, Local, constructed with any    *)
(* view maxima up to the bounds, and a host that makes any public call     *)
(* with any arguments, draining the actions between the calls; only a Join *)
(* may reach the node twice in a row.  last records the latest call: who   *)
(* was called, the call and its arguments, and a snapshot of the node      *)
(* before the call.                                                        *)
(***************************************************************************)
\* the options a node is built with: the defaults with small view sizes,
\* and one choice whose shuffle sizes are smaller than the views can get
OptionChoices ==
    {[NodeOptionsDefault EXCEPT !.max_active_view_size = a,
                                !.max_passive_view_size = p] :
        a \in 0..MaxActive, p \in 0..MaxPassive}
    \cup {[NodeOptionsDefault EXCEPT !.max_active_view_size = MaxActive,
                                     !.max_passive_view_size = MaxPassive,
                                     !.shuffle_active_view_size = MinShuffle,
                                     !.shuffle_passive_view_size = MinShuffle]}

Ttls == 0..MaxTtl

ProtocolMessages ==
    {msg_join(a) : a \in Ids}
    \cup {msg_forward_join(a, b, ttl) : a \in Ids, b \in Ids, ttl \in Ttls}
    \cup {msg_neighbor(a, hp) : a \in Ids, hp \in BOOLEAN}
    \cup {msg_shuffle(a, b, ns, ttl) :
             a \in Ids, b \in Ids, ns \in SeqsUpTo(Ids, MaxNodes), ttl \in Ttls}
    \cup {msg_shuffle_reply(a, ns) : a \in Ids, ns \in SeqsUpTo(Ids, MaxNodes)}
    \cup {msg_disconnect(a, alive) : a \in Ids, alive \in BOOLEAN}

\* what last keeps of a node as it was before a call: the views and the
\* number of actions that were pending
Snapshot(s) ==
    [active_view |-> s.active_view, passive_view |-> s.passive_view,
     pending |-> Len(s.actions)]

Init ==
    /\ \E o \in OptionChoices : nodes = [n \in {Local} |-> with_options(n, o)]
    /\ last = [node |-> Local, call |-> [op |-> "new"], pre |-> Snapshot(nodes[Local])]
    /\ host = [joined |-> {}, maint |-> 0, left |-> {}]

\* The host drains the action queue between state-changing calls
\* (poll_action's contract): it polls until poll_action returns None.
Drained(n) ==
    \/ last.call.op = "new"
    \/ last.node = n /\ last.call.op = "poll_action" /\ last.call.ret = None

CanCall(n) == ~nodes[n].panicked /\ Drained(n)

\* a public call on node n that leaves one of outcomes behind
Call(n, c, outcomes) ==
    /\ \E t \in outcomes : nodes' = [nodes EXCEPT ![n] = t]
    /\ last' = [node |-> n, call |-> c, pre |-> Snapshot(nodes[n])]
    /\ UNCHANGED host

Join(n) ==
    /\ CanCall(n)
    /\ \E c \in Ids :
          Call(n, [op |-> "join", contact |-> c], join(nodes[n], c))

Disconnect(n) ==
    /\ CanCall(n)
    /\ \E p \in Ids, alive \in BOOLEAN :
          Call(n, [op |-> "disconnect", node |-> p, alive |-> alive],
               disconnect(nodes[n], p, alive))

\* call.again says that the message is the one of the call before, handed
\* in once more; call.first is the number of actions that were pending
\* before the message was handed in for the first time
HandleProtocolMessage(n) ==
    /\ CanCall(n)
    /\ \E m \in ProtocolMessages :
          Call(n, [op |-> "handle_protocol_message", message |-> m,
                   again |-> FALSE, first |-> Len(nodes[n].actions)],
               handle_protocol_message(nodes[n], m))

\* a Join that has just been handled is handed in once more, with no call
\* in between (a Join that the transport delivers twice)
HandleJoinAgain(n) ==
    /\ ~nodes[n].panicked
    /\ last.node = n
    /\ last.call.op = "handle_protocol_message"
    /\ last.call.message.type = "Join"
    /\ ~last.call.again
    /\ Call(n, [last.call EXCEPT !.again = TRUE],
            handle_protocol_message(nodes[n], last.call.message))

FillActiveView(n) ==
    /\ CanCall(n)
    /\ Call(n, [op |-> "fill_active_view"], fill_active_view(nodes[n]))

SyncActiveView(n) ==
    /\ CanCall(n)
    /\ Call(n, [op |-> "sync_active_view"], sync_active_view(nodes[n]))

ShufflePassiveView(n) ==
    /\ CanCall(n)
    /\ Call(n, [op |-> "shuffle_passive_view"], shuffle_passive_view(nodes[n]))

PollAction(n) ==
    /\ ~nodes[n].panicked
    /\ nodes' = [nodes EXCEPT ![n] = poll_action(nodes[n]).st]
    /\ last' = [node |-> n,
                call |-> [op |-> "poll_action", ret |-> poll_action(nodes[n]).ret],
                pre |-> Snapshot(nodes[n])]
    /\ UNCHANGED host

Next ==
    \/ Join(Local)
    \/ Disconnect(Local)
    \/ HandleProtocolMessage(Local)
    \/ HandleJoinAgain(Local)
    \/ FillActiveView(Local)
    \/ SyncActiveView(Local)
    \/ ShufflePassiveView(Local)
    \/ PollAction(Local)

Spec == Init /\ [][Next]_vars

(***************************************************************************)
(* The cluster specification (tests::join_and_leave_works and              *)
(* tests::execute_actions in src/src/lib.rs): the nodes foo, bar and baz,  *)
(* constructed with the default options, each call join("foo"); then the   *)
(* host polls the nodes' actions in any order, hands every Send to its     *)
(* destination's handle_protocol_message at once, and interleaves          *)
(* maintenance calls.  host.joined holds the nodes that have called join,  *)
(* host.maint counts the maintenance calls, host.left holds the nodes that  *)
(* have called disconnect in the leave phase.  last is not kept here.      *)
(***************************************************************************)
ClusterIds == {"foo", "bar", "baz"}
Contact == "foo"

ClusterInit ==
    /\ nodes = [n \in ClusterIds |-> with_options(n, NodeOptionsDefault)]
    /\ last = [node |-> Contact, call |-> [op |-> "new"],
               pre |-> Snapshot(with_options(Contact, NodeOptionsDefault))]
    /\ host = [joined |-> {}, maint |-> 0, left |-> {}]

AllJoined == host.joined = DOMAIN nodes

\* for node in &mut nodes { node.join("foo"); }
ClusterJoin(n) ==
    /\ n \notin host.joined
    /\ \E t \in join(nodes[n], Contact) : nodes' = [nodes EXCEPT ![n] = t]
    /\ host' = [host EXCEPT !.joined = @ \cup {n}]
    /\ UNCHANGED last

CanMaintain(n) ==
    AllJoined /\ host.maint < MaxMaint /\ ~nodes[n].panicked

ClusterFillActiveView(n) ==
    /\ CanMaintain(n)
    /\ \E t \in fill_active_view(nodes[n]) : nodes' = [nodes EXCEPT ![n] = t]
    /\ host' = [host EXCEPT !.maint = @ + 1]
    /\ UNCHANGED last

ClusterSyncActiveView(n) ==
    /\ CanMaintain(n)
    /\ \E t \in sync_active_view(nodes[n]) : nodes' = [nodes EXCEPT ![n] = t]
    /\ host' = [host EXCEPT !.maint = @ + 1]
    /\ UNCHANGED last

ClusterShufflePassiveView(n) ==
    /\ CanMaintain(n)
    /\ \E t \in shuffle_passive_view(nodes[n]) : nodes' = [nodes EXCEPT ![n] = t]
    /\ host' = [host EXCEPT !.maint = @ + 1]
    /\ UNCHANGED last

\* one round of execute_actions for node n: poll an action; a Send goes to
\* its destination's handle_protocol_message if the destination is a node of
\* the cluster, anything else is dropped
ClusterPoll(n) ==
    /\ AllJoined
    /\ ~nodes[n].panicked
    /\ nodes[n].actions # <<>>
    /\ LET r == poll_action(nodes[n])
           action == r.ret[1]
           polled == [nodes EXCEPT ![n] = r.st]
       IN  IF action.type = "Send" /\ action.destination \in DOMAIN nodes
           THEN /\ ~polled[action.destination].panicked
                /\ \E t \in handle_protocol_message(polled[action.destination],
                                                   action.message) :
                      nodes' = [polled EXCEPT ![action.destination] = t]
           ELSE nodes' = polled
    /\ UNCHANGED <<last, host>>

ClusterNext ==
    \/ \E n \in DOMAIN nodes : ClusterJoin(n)
    \/ \E n \in DOMAIN nodes : ClusterFillActiveView(n)
    \/ \E n \in DOMAIN nodes : ClusterSyncActiveView(n)
    \/ \E n \in DOMAIN nodes : ClusterShufflePassiveView(n)
    \/ \E n \in DOMAIN nodes : ClusterPoll(n)

SpecCluster == ClusterInit /\ [][ClusterNext]_vars

(***************************************************************************)
(* The leave phase of tests::join_and_leave_works: it starts where the     *)
(* join phase ended (each active view holds the other two nodes in some    *)
(* order, the passive views and the queues are empty), baz has been popped *)
(* from the host's nodes, foo and bar each call disconnect(&"baz", true),  *)
(* and then execute_actions runs on the two nodes that are left.           *)
(***************************************************************************)
Leaver == "baz"

\* a node as the join phase leaves it: active view av, nothing else
Converged(n, av) ==
    [with_options(n, NodeOptionsDefault) EXCEPT !.active_view = av]

LeaveInit ==
    /\ \E fv \in Shuffles(<<"bar", "baz">>), bv \in Shuffles(<<"foo", "baz">>) :
          nodes = [n \in ClusterIds \ {Leaver} |->
                      IF n = "foo" THEN Converged(n, fv) ELSE Converged(n, bv)]
    /\ last = [node |-> Contact, call |-> [op |-> "new"],
               pre |-> Snapshot(with_options(Contact, NodeOptionsDefault))]
    /\ host = [joined |-> ClusterIds \ {Leaver}, maint |-> 0, left |-> {}]

AllLeft == host.left = DOMAIN nodes

\* nodes[i].disconnect(&"baz", true)
LeaveDisconnect(n) ==
    /\ n \notin host.left
    /\ \E t \in disconnect(nodes[n], Leaver, TRUE) : nodes' = [nodes EXCEPT ![n] = t]
    /\ host' = [host EXCEPT !.left = @ \cup {n}]
    /\ UNCHANGED last

LeaveFillActiveView(n) == AllLeft /\ ClusterFillActiveView(n)

LeaveSyncActiveView(n) == AllLeft /\ ClusterSyncActiveView(n)

LeaveShufflePassiveView(n) == AllLeft /\ ClusterShufflePassiveView(n)

LeavePoll(n) == AllLeft /\ ClusterPoll(n)

LeaveNext ==
    \/ \E n \in DOMAIN nodes : LeaveDisconnect(n)
    \/ \E n \in DOMAIN nodes : LeaveFillActiveView(n)
    \/ \E n \in DOMAIN nodes : LeaveSyncActiveView(n)
    \/ \E n \in DOMAIN nodes : LeaveShufflePassiveView(n)
    \/ \E n \in DOMAIN nodes : LeavePoll(n)

SpecLeave == LeaveInit /\ [][LeaveNext]_vars

(***************************************************************************)
(* tests::limit_active_view_size: the nodes foo, bar, baz and qux, each    *)
(* constructed with max_active_view_size = 2 and active_random_walk_len =  *)
(* 2, each call join("foo"); then execute_actions runs: pass after pass it *)
(* visits the nodes in order, makes at most one maintenance call on the    *)
(* node, polls one action of it and hands a Send to its destination, until *)
(* a pass polls nothing.  Beside this host (host.round_robin) there is a   *)
(* host that polls the nodes in any order, each poll handing a Send to its *)
(* destination just the same; it makes no maintenance call.                *)
(***************************************************************************)
LimitOptions ==
    [NodeOptionsDefault EXCEPT !.max_active_view_size = 2,
                               !.active_random_walk_len = 2]

\* the host's vector of nodes, in order
LimitOrder == <<"foo", "bar", "baz", "qux">>

\* host.i and host.did_something are the variables of execute_actions;
\* host.done says that execute_actions has returned
LimitInit ==
    /\ nodes = [n \in Ids |-> with_options(n, LimitOptions)]
    /\ last = [node |-> Contact, call |-> [op |-> "new"],
               pre |-> Snapshot(with_options(Contact, LimitOptions))]
    /\ \E rr \in BOOLEAN :
          host = [joined |-> {}, maint |-> 0, left |-> {},
                  i |-> 0, did_something |-> FALSE, done |-> FALSE,
                  round_robin |-> rr, polls |-> 0]

\* match rand::random::<usize>() % 30 { 0 => fill, 1 => sync, 2 => shuffle, _ => {} }
Maintained(s, kind) ==
    CASE kind = "fill_active_view" -> fill_active_view(s)
      [] kind = "sync_active_view" -> sync_active_view(s)
      [] kind = "shuffle_passive_view" -> shuffle_passive_view(s)
      [] OTHER -> {s}

\* if let Some(action) = nodes[i].poll_action() { .. }: the outcomes are
\* pairs [ns, polled], the nodes afterwards and whether an action was polled
PollAndDeliver(ns, n) ==
    LET r == poll_action(ns[n])
        polled == [ns EXCEPT ![n] = r.st]
    IN  IF r.ret = None
        THEN {[ns |-> ns, polled |-> FALSE]}
        ELSE IF r.ret[1].type = "Send" /\ r.ret[1].destination \in DOMAIN ns
             THEN {[ns |-> [polled EXCEPT ![r.ret[1].destination] = t], polled |-> TRUE] :
                      t \in handle_protocol_message(polled[r.ret[1].destination],
                                                    r.ret[1].message)}
             ELSE {[ns |-> polled, polled |-> TRUE]}

\* one iteration of the inner loop of execute_actions for nodes[i], with the
\* maintenance call kind before the poll; after the last node the outer
\* loop starts the next pass or, when nothing was polled in this pass, ends
LimitIterate(kind) ==
    /\ host.round_robin
    /\ AllJoined
    /\ ~host.done
    /\ \A n \in DOMAIN nodes : ~nodes[n].panicked
    /\ LET n == LimitOrder[host.i + 1]
       IN  \E t \in Maintained(nodes[n], kind) :
             \E r \in PollAndDeliver([nodes EXCEPT ![n] = t], n) :
               LET did == host.did_something \/ r.polled
                   last_node == host.i + 1 = Len(LimitOrder)
               IN  /\ nodes' = r.ns
                   /\ host' = [host EXCEPT
                                 !.maint = IF kind = "none" THEN @ ELSE @ + 1,
                                 !.i = IF last_node THEN 0 ELSE @ + 1,
                                 !.did_something = IF last_node THEN FALSE ELSE did,
                                 !.done = last_node /\ ~did]
    /\ UNCHANGED last

LimitPoll == LimitIterate("none")

LimitFillActiveView ==
    host.maint < MaxMaint /\ LimitIterate("fill_active_view")

LimitSyncActiveView ==
    host.maint < MaxMaint /\ LimitIterate("sync_active_view")

LimitShufflePassiveView ==
    host.maint < MaxMaint /\ LimitIterate("shuffle_passive_view")

\* the host that polls in any order polls an action of node n
LimitPollAny(n) ==
    /\ ~host.round_robin
    /\ AllJoined
    /\ host.polls < MaxPolls
    /\ \A k \in DOMAIN nodes : ~nodes[k].panicked
    /\ nodes[n].actions # <<>>
    /\ \E r \in PollAndDeliver(nodes, n) : nodes' = r.ns
    /\ host' = [host EXCEPT !.polls = @ + 1]
    /\ UNCHANGED last

LimitNext ==
    \/ \E n \in DOMAIN nodes : ClusterJoin(n)
    \/ \E n \in DOMAIN nodes : LimitPollAny(n)
    \/ LimitPoll
    \/ LimitFillActiveView
    \/ LimitSyncActiveView
    \/ LimitShufflePassiveView

SpecLimit == LimitInit /\ [][LimitNext]_vars

(***************************************************************************)
(* Random walks in a cluster of three nodes.  The hosts call join and      *)
(* shuffle_passive_view at any time, and poll and deliver in any order.    *)
(* host.hops[n][k] counts how often the message of nodes[n].actions[k] has *)
(* been forwarded since it was created: 0 for a message its node created,  *)
(* one more than the count of the message handled for a ForwardJoin        *)
(* (Shuffle) enqueued while a ForwardJoin (Shuffle) is handled.            *)
(***************************************************************************)
\* the walk lengths the clusters are configured with
WalkLens == {0, 1, DEFAULT_ACTIVE_RANDOM_WALK_LEN}

WalkInit ==
    /\ \E w \in WalkLens :
          nodes = [n \in ClusterIds |->
                      with_options(n, [NodeOptionsDefault EXCEPT
                                          !.active_random_walk_len = w])]
    /\ last = [node |-> Contact, call |-> [op |-> "new"],
               pre |-> Snapshot(with_options(Contact, NodeOptionsDefault))]
    /\ host = [joined |-> {}, maint |-> 0, left |-> {}, joins |-> 0,
               hops |-> [n \in ClusterIds |-> <<>>]]

\* a Send of a message that walks
IsWalk(a) == a.type = "Send" /\ a.message.type \in {"ForwardJoin", "Shuffle"}

\* the counts for the queue of the node state t, which a call reached from a
\* queue with the counts hops; the call handled a message of type cause that
\* had been forwarded h times ("none": the call was made by the host)
HopsAfter(hops, t, cause, h) ==
    hops \o [k \in 1..(Len(t.actions) - Len(hops)) |->
                LET a == t.actions[Len(hops) + k]
                IN  IF IsWalk(a) /\ a.message.type = cause THEN h + 1 ELSE 0]

WalkJoin(n) ==
    /\ host.joins < MaxJoins
    /\ ~nodes[n].panicked
    /\ \E t \in join(nodes[n], Contact) :
          /\ nodes' = [nodes EXCEPT ![n] = t]
          /\ host' = [host EXCEPT !.joins = @ + 1,
                                  !.hops[n] = HopsAfter(@, t, "none", 0)]
    /\ UNCHANGED last

WalkShufflePassiveView(n) ==
    /\ host.maint < MaxMaint
    /\ ~nodes[n].panicked
    /\ \E t \in shuffle_passive_view(nodes[n]) :
          /\ nodes' = [nodes EXCEPT ![n] = t]
          /\ host' = [host EXCEPT !.maint = @ + 1,
                                  !.hops[n] = HopsAfter(@, t, "none", 0)]
    /\ UNCHANGED last

\* poll an action of node n; a Send goes to its destination's
\* handle_protocol_message, anything else is dropped
WalkPoll(n) ==
    /\ ~nodes[n].panicked
    /\ nodes[n].actions # <<>>
    /\ LET r == poll_action(nodes[n])
           action == r.ret[1]
           polled == [nodes EXCEPT ![n] = r.st]
           hops == [host.hops EXCEPT ![n] = Tail(@)]
           d == action.destination
       IN  IF action.type = "Send" /\ d \in DOMAIN nodes
           THEN /\ ~polled[d].panicked
                /\ \E t \in handle_protocol_message(polled[d], action.message) :
                      /\ nodes' = [polled EXCEPT ![d] = t]
                      /\ host' = [host EXCEPT !.hops =
                                    [hops EXCEPT ![d] =
                                        HopsAfter(@, t, action.message.type,
                                                  host.hops[n][1])]]
           ELSE nodes' = polled /\ host' = [host EXCEPT !.hops = hops]
    /\ UNCHANGED last

WalkNext ==
    \/ \E n \in DOMAIN nodes : WalkJoin(n)
    \/ \E n \in DOMAIN nodes : WalkShufflePassiveView(n)
    \/ \E n \in DOMAIN nodes : WalkPoll(n)

SpecWalk == WalkInit /\ [][WalkNext]_vars

(***************************************************************************)
(* A cluster of three live nodes with a chosen max_active_view_size, as in *)
(* tests::join_and_leave_works: the nodes call join("foo"); then the hosts *)
(* poll the nodes in any order and hand each Send to its destination, make *)
(* up to MaxMaint maintenance calls at any time and, when no action is     *)
(* pending, up to MaxDisconnects disconnect calls.  The exchange is        *)
(* followed while no queue holds more than MaxPending actions.  The        *)
(* fairness condition says that a node with a pending action is polled     *)
(* sooner or later.                                                        *)
(***************************************************************************)
ExchangeInit ==
    /\ \E a \in 1..MaxActive :
          nodes = [n \in ClusterIds |->
                      with_options(n, [NodeOptionsDefault EXCEPT
                                          !.max_active_view_size = a])]
    /\ last = [node |-> Contact, call |-> [op |-> "new"],
               pre |-> Snapshot(with_options(Contact, NodeOptionsDefault))]
    /\ host = [joined |-> {}, maint |-> 0, left |-> {}, disconnects |-> 0]

\* some queue has grown beyond the bound
Overflow == \E n \in DOMAIN nodes : Len(nodes[n].actions) > MaxPending

\* nodes[i].disconnect(&p, true), called when execute_actions has returned
ExchangeDisconnect(n) ==
    /\ AllJoined
    /\ host.disconnects < MaxDisconnects
    /\ \A k \in DOMAIN nodes : nodes[k].actions = <<>>
    /\ \E p \in DOMAIN nodes \ {n} : \E t \in disconnect(nodes[n], p, TRUE) :
          nodes' = [nodes EXCEPT ![n] = t]
    /\ host' = [host EXCEPT !.disconnects = @ + 1]
    /\ UNCHANGED last

ExchangePoll(n) == ~Overflow /\ ClusterPoll(n)

ExchangeNext ==
    \/ \E n \in DOMAIN nodes : ClusterJoin(n)
    \/ \E n \in DOMAIN nodes : ExchangeDisconnect(n)
    \/ \E n \in DOMAIN nodes : ClusterFillActiveView(n)
    \/ \E n \in DOMAIN nodes : ClusterSyncActiveView(n)
    \/ \E n \in DOMAIN nodes : ClusterShufflePassiveView(n)
    \/ \E n \in DOMAIN nodes : ExchangePoll(n)

SpecExchange ==
    /\ ExchangeInit
    /\ [][ExchangeNext]_vars
    /\ \A n \in ClusterIds : WF_vars(ClusterJoin(n))
    /\ \A n \in ClusterIds : WF_vars(ExchangePoll(n))

(***************************************************************************)
(* Resizing the active view at run time.  One node takes any calls, then   *)
(* its host lowers max_active_view_size through options_mut to a value     *)
(* that is at least 1 and smaller than the size of the active view         *)
(* (host.resized), and from then on the node only polls and handles        *)
(* messages that make it admit a new peer.  The fairness condition says    *)
(* that the host keeps polling and the admissions keep coming.             *)
(***************************************************************************)
ResizeInit ==
    /\ nodes = [n \in {Local} |->
                  with_options(n, [NodeOptionsDefault EXCEPT
                                      !.max_active_view_size = MaxActive,
                                      !.max_passive_view_size = MaxPassive])]
    /\ last = [node |-> Local, call |-> [op |-> "new"], pre |-> Snapshot(nodes[Local])]
    /\ host = [joined |-> {}, maint |-> 0, left |-> {}, resized |-> FALSE]

\* node.options_mut().max_active_view_size = m
OptionsMut(n) ==
    /\ ~host.resized
    /\ CanCall(n)
    /\ \E m \in 1..(Len(nodes[n].active_view) - 1) :
          nodes' = [nodes EXCEPT ![n].options.max_active_view_size = m]
    /\ host' = [host EXCEPT !.resized = TRUE]
    /\ UNCHANGED last

\* the messages that make the node s admit the new peer p
Admitting(s, p) ==
    {msg_join(p), msg_neighbor(p, TRUE)}
    \cup {msg_forward_join(q, p, 0) : q \in Ids \ {s.id}}

\* a message arrives that makes the node admit a peer it does not have
ResizeAdmit(n) ==
    /\ host.resized
    /\ CanCall(n)
    /\ \E p \in Ids \ (Range(nodes[n].active_view) \cup {n}) :
          \E m \in Admitting(nodes[n], p) :
              Call(n, [op |-> "handle_protocol_message", message |-> m,
                       again |-> FALSE, first |-> Len(nodes[n].actions)],
                   handle_protocol_message(nodes[n], m))

ResizePoll(n) == host.resized /\ PollAction(n)

ResizeNext ==
    \/ ~host.resized /\ Next
    \/ OptionsMut(Local)
    \/ ResizeAdmit(Local)
    \/ ResizePoll(Local)

SpecResize ==
    /\ ResizeInit
    /\ [][ResizeNext]_vars
    /\ WF_vars(ResizePoll(Local))
    /\ WF_vars(ResizeAdmit(Local))

(***************************************************************************)
(* What the claims speak of.                                               *)
(***************************************************************************)
\* the node the latest call was made on
Cur == nodes[last.node]

\* the latest call returned (it did not reach a failing operation)
Returned == ~Cur.panicked

\* the latest call changed state (it was not construction or a poll)
IsCall == last.call.op \notin {"new", "poll_action"}

\* the actions the latest call enqueued, in order
Enqueued ==
    IF IsCall
    THEN SubSeq(Cur.actions, last.pre.pending + 1, Len(Cur.actions))
    ELSE <<>>

\* the message the latest call handled: disconnect(p, alive) is handled as
\* Disconnect{sender = p, alive}
Handled ==
    CASE last.call.op = "handle_protocol_message" -> last.call.message
      [] last.call.op = "disconnect" -> msg_disconnect(last.call.node, last.call.alive)
      [] OTHER -> [type |-> "none"]

NoDuplicates(v) == \A a, b \in 1..Len(v) : v[a] = v[b] => a = b

\* the peers the latest call removed from / added to the active view
Removed == Range(last.pre.active_view) \ Range(Cur.active_view)
Added == Range(Cur.active_view) \ Range(last.pre.active_view)

(***************************************************************************)
(* C1..C4: the view invariants.                                            *)
(***************************************************************************)
\* C1: after every public call no node id is in both the active view and
\* the passive view.
C1_ViewsDisjoint ==
    \A n \in DOMAIN nodes :
        Range(nodes[n].active_view) \cap Range(nodes[n].passive_view) = {}

\* a ShuffleReply naming an active member was handled while the passive
\* view holds somebody
C1_Witness ==
    /\ Handled.type = "ShuffleReply"
    /\ Returned
    /\ \E k \in 1..Len(Handled.nodes) : Handled.nodes[k] \in Range(Cur.active_view)
    /\ Cur.passive_view # <<>>

\* C2: after every public call the local node's own id is in neither view,
\* also when the sender, new_node, origin or nodes of a message name it.
C2_SelfInNoView ==
    \A n \in DOMAIN nodes :
        nodes[n].id \notin Range(nodes[n].active_view) \cup Range(nodes[n].passive_view)

\* a message whose fields name the local id was handled
C2_Witness ==
    /\ Returned
    /\ Cur.active_view # <<>>
    /\ Cur.passive_view # <<>>
    /\ \/ Handled.type = "Join" /\ Handled.sender = Cur.id
       \/ Handled.type = "ForwardJoin" /\ Handled.new_node = Cur.id /\ Handled.ttl = 0
       \/ /\ Handled.type = "ShuffleReply"
          /\ \E k \in 1..Len(Handled.nodes) : Handled.nodes[k] = Cur.id

\* C3: after every public call neither view holds the same id twice.
C3_NoDuplicates ==
    \A n \in DOMAIN nodes :
        NoDuplicates(nodes[n].active_view) /\ NoDuplicates(nodes[n].passive_view)

\* a payload that repeats an id was handled and the id is in the passive view
C3_Witness ==
    /\ Handled.type \in {"Shuffle", "ShuffleReply"}
    /\ Returned
    /\ \E a, b \in 1..Len(Handled.nodes) :
          /\ a # b
          /\ Handled.nodes[a] = Handled.nodes[b]
          /\ Handled.nodes[a] \in Range(Cur.passive_view)

\* C4: the active view holds at most max_active_view_size ids and the
\* passive view at most max_passive_view_size ids (the options are those of
\* construction).
C4_ViewsBounded ==
    \A n \in DOMAIN nodes :
        /\ Len(nodes[n].active_view) <= nodes[n].options.max_active_view_size
        /\ Len(nodes[n].passive_view) <= nodes[n].options.max_passive_view_size

\* a peer was admitted to a full active view while the passive view was full
C4_Witness ==
    /\ Returned
    /\ Added # {}
    /\ Len(last.pre.active_view) = Cur.options.max_active_view_size
    /\ Len(last.pre.passive_view) = Cur.options.max_passive_view_size
    /\ Len(Cur.active_view) = Cur.options.max_active_view_size
    /\ Len(Cur.passive_view) = Cur.options.max_passive_view_size

(***************************************************************************)
(* C5..C7: what a call enqueues.                                           *)
(***************************************************************************)
IsNotifyDown(a) == a.type = "Notify" /\ a.event = "NeighborDown"
IsNotifyUp(a) == a.type = "Notify" /\ a.event = "NeighborUp"
IsNeighborTo(a, p) ==
    /\ a.type = "Send"
    /\ a.destination = p
    /\ a.message.type = "Neighbor"
    /\ a.message.sender = Cur.id
DisconnectTo(p) == Action_send(p, msg_disconnect(Cur.id, TRUE))

\* C5: every removal of a peer p from the active view enqueues, contiguously
\* and in this order within the same call, Send(p, Disconnect{self, alive =
\* true}), Action::Disconnect(p), Notify(NeighborDown{p}); and no
\* Notify(NeighborDown{p}) is enqueued without those two right before it.
C5_RemovalEnqueuesTriple ==
    /\ \A p \in Removed :
          \E k \in 1..Len(Enqueued) :
              /\ k + 2 <= Len(Enqueued)
              /\ Enqueued[k] = DisconnectTo(p)
              /\ Enqueued[k + 1] = Action_disconnect(p)
              /\ Enqueued[k + 2] = Action_notify_down(p)
    /\ \A k \in 1..Len(Enqueued) :
          IsNotifyDown(Enqueued[k]) =>
              /\ k >= 3
              /\ Enqueued[k - 2] = DisconnectTo(Enqueued[k].node)
              /\ Enqueued[k - 1] = Action_disconnect(Enqueued[k].node)

\* an admission evicted a random member of the full active view
C5_Witness ==
    /\ Returned
    /\ Removed # {}
    /\ Added # {}
    /\ \E k \in 1..Len(Enqueued) : IsNotifyDown(Enqueued[k])

\* C6: every addition of a peer p to the active view enqueues, in the same
\* call, Send(p, Neighbor{sender = self, ..}) immediately followed by
\* Notify(NeighborUp{p}); and no Notify(NeighborUp{p}) is enqueued without
\* that Send right before it.
C6_AdditionEnqueuesPair ==
    /\ \A p \in Added :
          \E k \in 1..Len(Enqueued) :
              /\ k + 1 <= Len(Enqueued)
              /\ IsNeighborTo(Enqueued[k], p)
              /\ Enqueued[k + 1] = Action_notify_up(p)
    /\ \A k \in 1..Len(Enqueued) :
          IsNotifyUp(Enqueued[k]) =>
              /\ k >= 2
              /\ IsNeighborTo(Enqueued[k - 1], Enqueued[k].node)

\* a peer was added to the active view
C6_Witness ==
    /\ Returned
    /\ Added # {}
    /\ \E k \in 1..Len(Enqueued) : IsNotifyUp(Enqueued[k])

\* the last two actions the latest call enqueued are the housekeeping pair for p
HousekeepingPair(p) ==
    /\ Len(Enqueued) >= 2
    /\ Enqueued[Len(Enqueued) - 1] = DisconnectTo(p)
    /\ Enqueued[Len(Enqueued)] = Action_disconnect(p)

\* C7: after the handler of a Join, ForwardJoin, Neighbor, Shuffle or
\* ShuffleReply has run, the last two actions enqueued are Send(sender,
\* Disconnect{self, alive = true}) then Action::Disconnect(sender) if the
\* sender is not in the active view and is not the local id; if the sender is
\* in the active view or is the local id the pair is not enqueued (no
\* Action::Disconnect names the sender at all).  Handling a Disconnect never
\* enqueues the housekeeping pair.
C7_Housekeeping ==
    /\ (Returned /\ Handled.type \in {"Join", "ForwardJoin", "Neighbor", "Shuffle", "ShuffleReply"}) =>
          IF Handled.sender \notin Range(Cur.active_view) /\ Handled.sender # Cur.id
          THEN HousekeepingPair(Handled.sender)
          ELSE /\ ~HousekeepingPair(Handled.sender)
               /\ \A k \in 1..Len(Enqueued) :
                     Enqueued[k] # Action_disconnect(Handled.sender)
    /\ Handled.type = "Disconnect" => \A p \in Ids : ~HousekeepingPair(p)

\* a message from a peer outside the active view was handled
C7_Witness ==
    /\ Returned
    /\ Handled.type \in {"Join", "ForwardJoin", "Neighbor", "Shuffle", "ShuffleReply"}
    /\ Handled.sender \notin Range(Cur.active_view)
    /\ Handled.sender # Cur.id
    /\ HousekeepingPair(Handled.sender)

(***************************************************************************)
(* C8, C9: disconnect.                                                     *)
(***************************************************************************)
\* C8: after a node handles Disconnect{sender, alive = false} (or the host
\* calls disconnect(sender, false)), sender is in neither view, whichever
\* view it was in before.
C8_DeadSenderInNoView ==
    (Returned /\ Handled.type = "Disconnect" /\ ~Handled.alive) =>
        Handled.sender \notin Range(Cur.active_view) \cup Range(Cur.passive_view)

\* C9: disconnect(p, alive) for a peer p in neither view is a no-op for both
\* values of alive: no action is enqueued and both views are unchanged.
C9_UnknownDisconnectNoOp ==
    (/\ last.call.op = "disconnect"
     /\ last.call.node \notin
           Range(last.pre.active_view) \cup Range(last.pre.passive_view)) =>
        /\ Enqueued = <<>>
        /\ Cur.active_view = last.pre.active_view
        /\ Cur.passive_view = last.pre.passive_view

(***************************************************************************)
(* C10: three nodes converge.                                              *)
(***************************************************************************)
\* every node has called join and no action is pending anywhere
Quiescent == AllJoined /\ \A n \in DOMAIN nodes : nodes[n].actions = <<>>

\* C10: foo, bar and baz (default options, empty views) each call
\* join("foo"); whenever all action queues are empty afterwards, each node's
\* active view is the set of the other two nodes and every passive view is
\* empty, for every polling order, random choice and interleaved fill / sync
\* / shuffle call.
C10_ThreeNodesConverge ==
    Quiescent =>
        \A n \in DOMAIN nodes :
            /\ Range(nodes[n].active_view) = DOMAIN nodes \ {n}
            /\ nodes[n].passive_view = <<>>

\* the queues have drained after the joins and a maintenance call
C10_Witness ==
    /\ Quiescent
    /\ host.maint >= 1
    /\ \A n \in DOMAIN nodes : Len(nodes[n].active_view) = 2

(***************************************************************************)
(* C11: graceful leave.                                                    *)
(***************************************************************************)
\* both remaining nodes have called disconnect and no action is pending
LeaveQuiescent == AllLeft /\ \A n \in DOMAIN nodes : nodes[n].actions = <<>>

\* C11: from the converged three-node state, baz is removed from the host
\* and foo and bar each call disconnect(baz, true) (Sends to baz are
\* dropped); whenever all action queues are empty afterwards, foo's active
\* view is {bar}, bar's active view is {foo}, and both passive views are
\* exactly {baz}, for every delivery order, random choice and interleaved
\* maintenance call.
C11_GracefulLeave ==
    LeaveQuiescent =>
        \A n \in DOMAIN nodes :
            /\ Range(nodes[n].active_view) = DOMAIN nodes \ {n}
            /\ Range(nodes[n].passive_view) = {Leaver}

\* the queues have drained after both disconnects and a maintenance call
C11_Witness ==
    /\ LeaveQuiescent
    /\ host.maint >= 1
    /\ \A n \in DOMAIN nodes : nodes[n].passive_view = <<Leaver>>

(***************************************************************************)
(* C12: the active view stays bounded in a four-node cluster.              *)
(***************************************************************************)
\* what tests::limit_active_view_size asserts of the nodes
LimitAsserted ==
    \A n \in DOMAIN nodes :
        /\ Len(nodes[n].active_view) = 2
        /\ Range(nodes[n].active_view) \subseteq DOMAIN nodes \ {n}
        /\ nodes[n].passive_view # <<>> =>
              Range(nodes[n].passive_view) =
                  (DOMAIN nodes \ {n}) \ Range(nodes[n].active_view)

\* C12 as stated: foo, bar, baz and qux (max_active_view_size = 2,
\* active_random_walk_len = 2) each call join("foo"); whenever all action
\* queues are empty afterwards, every node's active view has size exactly 2
\* and holds only the other three nodes, and every non-empty passive view
\* equals the other three nodes minus that node's active view, for every
\* delivery order, random choice and interleaved maintenance call.
C12_LimitActiveViewSize == Quiescent => LimitAsserted

\* C12, amended: the same holds whenever all action queues are empty if the
\* host delivers as execute_actions does: pass after pass over foo, bar,
\* baz, qux in this order, one polled action per node and pass, for every
\* random choice and interleaved maintenance call.
C12_LimitActiveViewSizeRoundRobin ==
    (host.round_robin /\ Quiescent) => LimitAsserted

\* execute_actions has returned after a maintenance call, and some node has
\* a passive view
C12_Witness ==
    /\ host.round_robin
    /\ host.done
    /\ Quiescent
    /\ host.maint >= 1
    /\ \E n \in DOMAIN nodes : nodes[n].passive_view # <<>>

(***************************************************************************)
(* C13: admission to a full active view.                                   *)
(***************************************************************************)
\* the peer the handled message asks to admit to the active view
\* unconditionally: the sender of a Join or of a high-priority Neighbor, the
\* new_node of an expired ForwardJoin; the local id when there is none
Admitted ==
    CASE Handled.type = "Join" -> Handled.sender
      [] Handled.type = "Neighbor" /\ Handled.high_priority -> Handled.sender
      [] Handled.type = "ForwardJoin" /\ is_expired(Handled.ttl) -> Handled.new_node
      [] OTHER -> Cur.id

\* the positions of the actions enqueued by the latest call that satisfy P
Positions(P(_)) == {k \in 1..Len(Enqueued) : P(Enqueued[k])}

\* the latest call admitted Admitted to an active view that was full
FullAdmission ==
    /\ last.call.op = "handle_protocol_message"
    /\ Admitted # Cur.id
    /\ Admitted \notin Range(last.pre.active_view)
    /\ Len(last.pre.active_view) = Cur.options.max_active_view_size
    /\ Len(last.pre.active_view) >= 1
    /\ Admitted \in Range(Cur.active_view)

\* C13: when the active view is full (size = max_active_view_size >= 1) and
\* a call admits a new peer q (not self, not active) via a Join from q, an
\* expired ForwardJoin for q or a high-priority Neighbor from q, exactly one
\* previously active peer e is removed, q is added, the size of the active
\* view is unchanged, the call enqueues exactly one Notify(NeighborDown{e})
\* and exactly one Notify(NeighborUp{q}), the NeighborDown first, and e is
\* in the passive view afterwards.
C13_FullAdmissionEvictsOne ==
    FullAdmission =>
        /\ Cardinality(Removed) = 1
        /\ Added = {Admitted}
        /\ Len(Cur.active_view) = Len(last.pre.active_view)
        /\ \E d, u \in 1..Len(Enqueued) :
              /\ Positions(IsNotifyDown) = {d}
              /\ Positions(IsNotifyUp) = {u}
              /\ d < u
              /\ Enqueued[d].node \in Removed
              /\ Enqueued[u].node = Admitted
        /\ Removed \subseteq Range(Cur.passive_view)

\* a peer was admitted to a full active view of size two while the passive
\* view was full as well
C13_Witness ==
    /\ FullAdmission
    /\ Returned
    /\ Len(last.pre.active_view) = 2
    /\ Len(last.pre.passive_view) = Cur.options.max_passive_view_size
    /\ Handled.type = "ForwardJoin"

(***************************************************************************)
(* C14: the end of a shuffle walk.                                         *)
(***************************************************************************)
IsSendOf(a, type) == a.type = "Send" /\ a.message.type = type
IsShuffleReply(a) == IsSendOf(a, "ShuffleReply")
IsShuffle(a) == IsSendOf(a, "Shuffle")

Min(a, b) == IF a < b THEN a ELSE b

\* C14: handling Shuffle{sender, origin, nodes, ttl = 0} enqueues exactly one
\* ShuffleReply; it is addressed to origin, its sender field is the local
\* id, its node list has length min(|nodes|, |passive view|) and holds
\* distinct members of the passive view as it was before the call (the
\* elements of nodes are offered to the passive view only after the reply is
\* built); no Shuffle is forwarded.
C14_ExpiredShuffleReplies ==
    (Handled.type = "Shuffle" /\ is_expired(Handled.ttl)) =>
        /\ Positions(IsShuffleReply) = {1}
        /\ Positions(IsShuffle) = {}
        /\ Len(Enqueued) >= 1
        /\ LET reply == Enqueued[1]
           IN  /\ reply.destination = Handled.origin
               /\ reply.message.sender = Cur.id
               /\ Len(reply.message.nodes) =
                     Min(Len(Handled.nodes), Len(last.pre.passive_view))
               /\ NoDuplicates(reply.message.nodes)
               /\ Range(reply.message.nodes) \subseteq Range(last.pre.passive_view)

\* an expired Shuffle whose origin is not its sender was handled; it offered
\* a peer that was not in the passive view and is there now, and the reply
\* names a passive member
C14_Witness ==
    /\ Handled.type = "Shuffle"
    /\ is_expired(Handled.ttl)
    /\ Returned
    /\ Handled.origin # Handled.sender
    /\ Len(Enqueued) >= 1
    /\ Enqueued[1].message.nodes # <<>>
    /\ \E k \in 1..Len(Handled.nodes) :
          /\ Handled.nodes[k] \notin Range(last.pre.passive_view)
          /\ Handled.nodes[k] \in Range(Cur.passive_view)

(***************************************************************************)
(* C15: a ForwardJoin whose ttl is passive_random_walk_len.                *)
(***************************************************************************)
IsForwardJoin(a) == IsSendOf(a, "ForwardJoin")

\* the latest call handled, and returned from, a ForwardJoin whose ttl is
\* passive_random_walk_len and whose new_node was not the local id and was
\* in neither view
ForwardJoinAtPrwl ==
    /\ Handled.type = "ForwardJoin"
    /\ Returned
    /\ as_u8(Handled.ttl) = Cur.options.passive_random_walk_len
    /\ Handled.new_node # Cur.id
    /\ Handled.new_node \notin
          Range(last.pre.active_view) \cup Range(last.pre.passive_view)

\* the active view held a member other than the sender of the handled message
HadOtherThanSender == Range(last.pre.active_view) \ {Handled.sender} # {}

\* the call enqueued exactly one ForwardJoin: {self, new_node, ttl - 1}, to
\* a member of the active view other than the sender
ForwardedOnce ==
    \E k \in 1..Len(Enqueued) :
        /\ Positions(IsForwardJoin) = {k}
        /\ Enqueued[k].message =
              msg_forward_join(Cur.id, Handled.new_node, decrement(Handled.ttl))
        /\ Enqueued[k].destination \in Range(last.pre.active_view) \ {Handled.sender}

JoinedTwice ==
    /\ last.call.op = "handle_protocol_message"
    /\ last.call.again
    /\ Returned

\* the actions the two calls enqueued
EnqueuedByBoth == SubSeq(Cur.actions, last.call.first + 1, Len(Cur.actions))

\* C16: submitting the same Join{sender = J} to a node twice in a row (no
\* other call in between) enqueues at most one Notify(NeighborUp{J}) in
\* total across the two calls, and the second call leaves both views
\* unchanged.
C16_JoinTwice ==
    JoinedTwice =>
        /\ Cardinality({k \in 1..Len(EnqueuedByBoth) :
                           EnqueuedByBoth[k] = Action_notify_up(Handled.sender)}) <= 1
        /\ Cur.active_view = last.pre.active_view
        /\ Cur.passive_view = last.pre.passive_view

\* the first Join evicted a member of the full active view for J, and the
\* second Join found J there
C16_Witness ==
    /\ JoinedTwice
    /\ Handled.sender \in Range(Cur.active_view)
    /\ Len(Cur.active_view) = 2
    /\ \E k \in 1..Len(EnqueuedByBoth) : IsNotifyDown(EnqueuedByBoth[k])
    /\ \E k \in 1..Len(EnqueuedByBoth) :
          EnqueuedByBoth[k] = Action_notify_up(Handled.sender)

(***************************************************************************)
(* C17: totality.                                                          *)
(***************************************************************************)
\* C17: every entry point is total for every value of the options,
\* max_active_view_size = 0 and max_passive_view_size = 0 included: no call
\* to join, disconnect, handle_protocol_message, fill_active_view,
\* sync_active_view or shuffle_passive_view reaches a failing operation (a
\* random index drawn from the empty range [0, 0), an index out of range).
C17_Total == \A n \in DOMAIN nodes : ~nodes[n].panicked

(***************************************************************************)
(* C18: the action queue is first in, first out.                           *)
(***************************************************************************)
\* v is the beginning of w
IsPrefix(v, w) == Len(v) <= Len(w) /\ SubSeq(w, 1, Len(v)) = v

\* C18: poll_action returns the pending actions in the order they were
\* enqueued.  A poll returns the oldest pending action and removes exactly
\* it, or returns None exactly when nothing is pending, and changes neither
\* view; every other call leaves the pending actions in place and puts its
\* own behind them.  So the actions of one call come out in enqueue order,
\* those of an earlier call before those of a later call, each exactly once.
C18_PollFifo ==
    [][LET s == nodes[last'.node]
           t == nodes'[last'.node]
       IN  IF last'.call.op = "poll_action"
           THEN /\ t.active_view = s.active_view
                /\ t.passive_view = s.passive_view
                /\ (last'.call.ret = None) <=> (s.actions = <<>>)
                /\ s.actions # <<>> =>
                      /\ last'.call.ret = Some(Head(s.actions))
                      /\ t.actions = Tail(s.actions)
                /\ s.actions = <<>> => t.actions = <<>>
           ELSE IsPrefix(s.actions, t.actions)]_vars

\* after join("bar") on a fresh node the first poll returned
\* Send{bar, Join{sender = self}} and left nothing pending
C18_Witness ==
    /\ last.call.op = "poll_action"
    /\ last.call.ret = Some(Action_send("bar", msg_join(Local)))
    /\ last.pre.pending = 1
    /\ Cur.actions = <<>>
    /\ Cur.active_view = <<>>
    /\ Cur.passive_view = <<>>

(***************************************************************************)
(* C19: admission to a full passive view.                                  *)
(***************************************************************************)
\* the one peer the handled message offers to the passive view; the local
\* id when it offers none or several
Offered ==
    CASE Handled.type \in {"ShuffleReply", "Shuffle"} /\ Len(Handled.nodes) = 1 ->
            Handled.nodes[1]
      [] Handled.type = "ForwardJoin" -> Handled.new_node
      [] Handled.type = "Disconnect" /\ Handled.alive -> Handled.sender
      [] OTHER -> Cur.id

\* the latest call admitted Offered, a peer that was in neither view, to a
\* passive view that was full: through a ShuffleReply, an expired Shuffle, a
\* ForwardJoin whose ttl is passive_random_walk_len, or Disconnect{alive =
\* true}
FullPassiveAdmission ==
    /\ \/ Handled.type = "ShuffleReply"
       \/ Handled.type = "Shuffle" /\ is_expired(Handled.ttl)
       \/ /\ Handled.type = "ForwardJoin"
          /\ as_u8(Handled.ttl) = Cur.options.passive_random_walk_len
       \/ Handled.type = "Disconnect" /\ Handled.alive
    /\ Offered # Cur.id
    /\ Offered \notin Range(last.pre.active_view) \cup Range(last.pre.passive_view)
    /\ Len(last.pre.passive_view) = Cur.options.max_passive_view_size
    /\ Len(last.pre.passive_view) >= 1
    /\ Offered \in Range(Cur.passive_view)

\* C19: when the passive view is full (size = max_passive_view_size >= 1)
\* and a peer q, not self and in neither view, is admitted to it (through a
\* ShuffleReply, an expired Shuffle, a ForwardJoin at ttl =
\* passive_random_walk_len or Disconnect{alive = true} from an unknown
\* peer), exactly one previous passive entry is removed, q is added, the
\* size of the passive view is unchanged, the active view holds the same
\* peers as before, and no Notify action is enqueued.
C19_FullPassiveAdmissionEvictsOne ==
    FullPassiveAdmission =>
        /\ Cardinality(Range(last.pre.passive_view) \ Range(Cur.passive_view)) = 1
        /\ Range(Cur.passive_view) \ Range(last.pre.passive_view) = {Offered}
        /\ Len(Cur.passive_view) = Len(last.pre.passive_view)
        /\ Range(Cur.active_view) = Range(last.pre.active_view)
        /\ Len(Cur.active_view) = Len(last.pre.active_view)
        /\ \A k \in 1..Len(Enqueued) : Enqueued[k].type # "Notify"

\* an unknown peer's Disconnect{alive = true} was handled by a node whose
\* passive view was full and whose active view held a peer
C19_Witness ==
    /\ FullPassiveAdmission
    /\ Handled.type = "Disconnect"
    /\ Cur.active_view # <<>>

(***************************************************************************)
(* C20: a ForwardJoin walk is not dropped.                                 *)
(***************************************************************************)
\* the latest call handled, and returned from, a ForwardJoin for a peer
\* other than the local id
ForwardJoinHandled ==
    /\ Handled.type = "ForwardJoin"
    /\ Returned
    /\ Handled.new_node # Cur.id

\* outcome (b): new_node is in the active view when the call returns
JoinerActive == Handled.new_node \in Range(Cur.active_view)

\* ttl is 0, the active view is empty, or every active member is the sender
NoDestination == is_expired(Handled.ttl) \/ ~HadOtherThanSender

\* C20 as stated: handling ForwardJoin{sender, new_node, ttl} with new_node
\* not the local id always ends in exactly one of two outcomes: (a) exactly
\* one ForwardJoin{self, new_node, ttl - 1} is sent to an active-view member
\* other than sender, or (b) new_node is in the active view when the call
\* returns; (b) is taken whenever ttl is 0, the active view is empty or
\* every active member equals sender.
C20_ForwardJoinNotDropped ==
    ForwardJoinHandled =>
        /\ ForwardedOnce \/ JoinerActive
        /\ ~(ForwardedOnce /\ JoinerActive)
        /\ Positions(IsForwardJoin) # {} => ForwardedOnce
        /\ NoDestination => JoinerActive

\* C20, amended: the call always ends in at least one of the two outcomes,
\* and in exactly one of them when new_node was not in the active view
\* before the call (a walk for a peer that is already active is forwarded
\* all the same); (b) is taken, and nothing is forwarded, whenever ttl is 0,
\* the active view is empty or every active member equals sender.
C20_ForwardJoinNotDroppedUnlessActive ==
    ForwardJoinHandled =>
        /\ ForwardedOnce \/ JoinerActive
        /\ Handled.new_node \notin Range(last.pre.active_view) =>
              ~(ForwardedOnce /\ JoinerActive)
        /\ Positions(IsForwardJoin) # {} => ForwardedOnce
        /\ NoDestination => JoinerActive /\ Positions(IsForwardJoin) = {}

\* a walk came from the only active member and the joiner was admitted
C20_Witness ==
    /\ ForwardJoinHandled
    /\ ~is_expired(Handled.ttl)
    /\ Range(last.pre.active_view) = {Handled.sender}
    /\ Handled.new_node # Handled.sender
    /\ JoinerActive

(***************************************************************************)
(* C23: Join.                                                              *)
(***************************************************************************)
\* the latest call handled, and returned from, a Join from a peer other than
\* the local id
JoinHandled ==
    /\ Handled.type = "Join"
    /\ Returned
    /\ Handled.sender # Cur.id

\* the ForwardJoin a Join from J makes the node send
JoinForward(J) ==
    msg_forward_join(Cur.id, J, TimeToLive_new(Cur.options.active_random_walk_len))

\* C23: handling Join{sender = J}, J not the local id, leaves J in the active
\* view and enqueues exactly one Send(n, ForwardJoin{self, J, ttl =
\* active_random_walk_len}) for every member n of the updated active view
\* other than J, none addressed to J and none to a peer the admission
\* evicted, all of them after the Neighbor / NeighborUp actions for J.
C23_JoinForwards ==
    JoinHandled =>
        LET J == Handled.sender
            others == Range(Cur.active_view) \ {J}
        IN  /\ J \in Range(Cur.active_view)
            /\ \A n \in others :
                  Cardinality({k \in 1..Len(Enqueued) :
                      Enqueued[k] = Action_send(n, JoinForward(J))}) = 1
            /\ \A k \in Positions(IsForwardJoin) :
                  /\ Enqueued[k].destination \in others
                  /\ Enqueued[k].message = JoinForward(J)
                  /\ \A j \in 1..Len(Enqueued) :
                        (IsNeighborTo(Enqueued[j], J)
                            \/ Enqueued[j] = Action_notify_up(J)) => j < k

\* a Join evicted a member of the full active view of size two; the member
\* that is left got the ForwardJoin
C23_Witness ==
    /\ JoinHandled
    /\ Len(last.pre.active_view) = 2
    /\ Removed # {}
    /\ Added = {Handled.sender}
    /\ Positions(IsForwardJoin) # {}

(***************************************************************************)
(* C24: Neighbor.                                                          *)
(***************************************************************************)
\* the latest call handled, and returned from, a Neighbor
NeighborHandled == Handled.type = "Neighbor" /\ Returned

\* the active view was full before the latest call
WasActiveFull == Len(last.pre.active_view) >= Cur.options.max_active_view_size

\* C24: handling Neighbor{sender, high_priority}: if high_priority is true,
\* sender (not self) is in the active view when the call returns, a member
\* having been evicted if the view was full; if high_priority is false and
\* the active view is full and does not hold sender, both views are
\* unchanged and the only actions enqueued are the housekeeping Send(sender,
\* Disconnect{self, alive = true}) and Action::Disconnect(sender) (nothing
\* for sender = self); whenever sender is newly admitted the Neighbor sent
\* back to it has high_priority = false.
C24_Neighbor ==
    NeighborHandled =>
        LET q == Handled.sender
        IN  /\ (Handled.high_priority /\ q # Cur.id) =>
                  /\ q \in Range(Cur.active_view)
                  /\ (WasActiveFull /\ q \notin Range(last.pre.active_view)) =>
                        Cardinality(Removed) = 1
            /\ (/\ ~Handled.high_priority
                /\ WasActiveFull
                /\ q \notin Range(last.pre.active_view)) =>
                  /\ Cur.active_view = last.pre.active_view
                  /\ Cur.passive_view = last.pre.passive_view
                  /\ Enqueued = IF q = Cur.id
                                THEN <<>>
                                ELSE <<DisconnectTo(q), Action_disconnect(q)>>
            /\ q \in Added =>
                  /\ \E k \in 1..Len(Enqueued) :
                        Enqueued[k] = Action_send(q, msg_neighbor(Cur.id, FALSE))
                  /\ \A k \in 1..Len(Enqueued) :
                        IsNeighborTo(Enqueued[k], q) => ~Enqueued[k].message.high_priority

\* a high-priority Neighbor was admitted to a full active view
C24_Witness ==
    /\ NeighborHandled
    /\ Handled.high_priority
    /\ WasActiveFull
    /\ Handled.sender \in Added
    /\ Removed # {}

\* a low-priority Neighbor was turned down by a full active view
C24_WitnessRefused ==
    /\ NeighborHandled
    /\ ~Handled.high_priority
    /\ WasActiveFull
    /\ Len(last.pre.active_view) >= 1
    /\ Handled.sender \notin Range(last.pre.active_view)
    /\ Handled.sender # Cur.id
    /\ Len(Enqueued) = 2

(***************************************************************************)
(* C25: fill_active_view.                                                  *)
(***************************************************************************)
FillCalled == last.call.op = "fill_active_view" /\ Returned

C25_WitnessLow ==
    /\ FillCalled
    /\ Len(Cur.active_view) = 1
    /\ Len(Enqueued) = 1
    /\ ~Enqueued[1].message.high_priority

\* a node with a full active view and a passive peer asked nobody
C25_WitnessFull ==
    /\ FillCalled
    /\ Len(Cur.active_view) = 2
    /\ Cur.passive_view # <<>>
    /\ Enqueued = <<>>

(***************************************************************************)
(* C26: shuffle_passive_view.                                              *)
(***************************************************************************)
ShuffleCalled == last.call.op = "shuffle_passive_view" /\ Returned

\* the number of positions of the sequence v that hold x
Count(v, x) == Cardinality({k \in 1..Len(v) : v[k] = x})

\* C26: shuffle_passive_view enqueues nothing when the active view is empty;
\* otherwise it enqueues exactly one Send(target, Shuffle{sender = self,
\* origin = self, nodes, ttl = active_random_walk_len}) with target in the
\* active view, where nodes holds the local id exactly once,
\* min(shuffle_active_view_size, |active|) distinct active members,
\* min(shuffle_passive_view_size, |passive|) distinct passive members, and
\* nothing else; the membership of both views is unchanged as sets.
C26_ShufflePassiveView ==
    ShuffleCalled =>
        LET av == Range(last.pre.active_view)
            pv == Range(last.pre.passive_view)
            o == Cur.options
        IN  /\ Range(Cur.active_view) = av
            /\ Range(Cur.passive_view) = pv
            /\ Len(Cur.active_view) = Len(last.pre.active_view)
            /\ Len(Cur.passive_view) = Len(last.pre.passive_view)
            /\ IF av = {}
               THEN Enqueued = <<>>
               ELSE /\ Len(Enqueued) = 1
                    /\ IsShuffle(Enqueued[1])
                    /\ Enqueued[1].destination \in av
                    /\ LET m == Enqueued[1].message
                       IN  /\ m.sender = Cur.id
                           /\ m.origin = Cur.id
                           /\ m.ttl = o.active_random_walk_len
                           /\ NoDuplicates(m.nodes)
                           /\ Count(m.nodes, Cur.id) = 1
                           /\ Cardinality(Range(m.nodes) \cap av) =
                                 Min(o.shuffle_active_view_size, Cardinality(av))
                           /\ Cardinality(Range(m.nodes) \cap pv) =
                                 Min(o.shuffle_passive_view_size, Cardinality(pv))
                           /\ Range(m.nodes) \subseteq {Cur.id} \cup av \cup pv

\* a shuffle sampled one of two active members, and the passive member
C26_Witness ==
    /\ ShuffleCalled
    /\ Len(Cur.active_view) = 2
    /\ Len(Cur.passive_view) = 1
    /\ Len(Enqueued) = 1
    /\ Len(Enqueued[1].message.nodes) = 3

\* a shuffle sampled one of two passive members
C26_WitnessPassive ==
    /\ ShuffleCalled
    /\ Len(Cur.passive_view) = 2
    /\ Len(Enqueued) = 1
    /\ Cardinality(Range(Enqueued[1].message.nodes) \cap Range(Cur.passive_view)) = 1

\* a shuffle sampled the whole of both views
C26_WitnessWhole ==
    /\ ShuffleCalled
    /\ Len(Enqueued) = 1
    /\ Len(Enqueued[1].message.nodes) = 4

\* a shuffle on a node without neighbours
C26_WitnessEmpty ==
    /\ ShuffleCalled
    /\ Cur.active_view = <<>>
    /\ Cur.passive_view # <<>>

(***************************************************************************)
(* C27: forwarding destinations.                                           *)
(***************************************************************************)
\* select_forwarding_destination on the node as it is now, for every slice of
\* excluded ids: the result is an active member that is not excluded, it is
\* none exactly when every active member is excluded, and the active view
\* keeps its members and its size
ForwardingDestinationSound ==
    \A ex \in SUBSET Ids :
        \A r \in select_forwarding_destination(Cur, ex) :
            /\ r.ret # None => r.ret[1] \in Range(Cur.active_view) \ ex
            /\ r.ret = None <=> Range(Cur.active_view) \subseteq ex
            /\ Range(r.st.active_view) = Range(Cur.active_view)
            /\ Len(r.st.active_view) = Len(Cur.active_view)
            /\ r.st.passive_view = Cur.passive_view
            /\ r.st.actions = Cur.actions

\* the latest call handled, and returned from, a Shuffle whose ttl is not 0
LiveShuffleHandled ==
    /\ Handled.type = "Shuffle"
    /\ Returned
    /\ ~is_expired(Handled.ttl)

\* C27: select_forwarding_destination(excludes) returns a member of the
\* active view that is not in excludes, returns none exactly when every
\* active member is in excludes (or the view is empty), and leaves the active
\* view with the same members and size.  Consequently a non-expired Shuffle
\* is never forwarded to its origin or to its immediate sender, a ForwardJoin
\* is never forwarded back to its immediate sender, and handling a
\* non-expired Shuffle changes neither view's membership.
C27_ForwardingDestination ==
    /\ Returned => ForwardingDestinationSound
    /\ LiveShuffleHandled =>
          /\ \A k \in Positions(IsShuffle) :
                Enqueued[k].destination \notin {Handled.origin, Handled.sender}
          /\ Range(Cur.active_view) = Range(last.pre.active_view)
          /\ Len(Cur.active_view) = Len(last.pre.active_view)
          /\ Range(Cur.passive_view) = Range(last.pre.passive_view)
          /\ Len(Cur.passive_view) = Len(last.pre.passive_view)
    /\ (Handled.type = "ForwardJoin" /\ Returned) =>
          \A k \in Positions(IsForwardJoin) :
              Enqueued[k].destination # Handled.sender

\* a Shuffle that came from an active member was forwarded to the other one
C27_Witness ==
    /\ LiveShuffleHandled
    /\ Handled.sender \in Range(last.pre.active_view)
    /\ Positions(IsShuffle) # {}

\* a Shuffle was dropped: its origin and its sender are the active members
C27_WitnessDropped ==
    /\ LiveShuffleHandled
    /\ Range(last.pre.active_view) = {Handled.origin, Handled.sender}
    /\ Handled.origin # Handled.sender
    /\ Enqueued = <<>>

\* a ForwardJoin that came from an active member was forwarded to the other
C27_WitnessForwardJoin ==
    /\ Handled.type = "ForwardJoin"
    /\ Returned
    /\ Handled.sender \in Range(last.pre.active_view)
    /\ Positions(IsForwardJoin) # {}

(***************************************************************************)
(* C28: the Notify stream follows the active view.                         *)
(***************************************************************************)
\* the Notify actions for the peer p the latest call enqueued, in order
NotifyEvents(p) ==
    SelectSeq(Enqueued, LAMBDA a : a.type = "Notify" /\ a.node = p)

\* NeighborUp and NeighborDown take turns in the sequence e
Alternate(e) == \A k \in 1..(Len(e) - 1) : e[k].event # e[k + 1].event

\* C28: over any sequence of calls on one node, for every peer p the
\* NeighborUp{p} and NeighborDown{p} events ever enqueued strictly alternate
\* starting with NeighborUp{p}, and after every call p is in the active view
\* exactly when the last enqueued event for p is NeighborUp{p}.  Stated call
\* by call, which is the same by induction over the calls: a node is
\* constructed with an empty active view and no events; the events for p
\* that one call enqueues alternate, the first of them is NeighborUp{p}
\* exactly when p was not in the active view before the call, and when the
\* call returns p is in the active view exactly when the last of them is
\* NeighborUp{p}, or, with no event for p, exactly when it was before.
C28_NotifyStream ==
    /\ last.call.op = "new" => Cur.active_view = <<>> /\ Cur.actions = <<>>
    /\ \A p \in Ids :
          LET e == NotifyEvents(p)
              was == p \in Range(last.pre.active_view)
          IN  /\ Alternate(e)
              /\ e # <<>> => (IsNotifyUp(e[1]) <=> ~was)
              /\ Returned =>
                    (p \in Range(Cur.active_view) <=>
                        IF e = <<>> THEN was ELSE IsNotifyUp(e[Len(e)]))

\* one call took a peer out of the active view and admitted another
C28_Witness ==
    /\ Returned
    /\ \E p, q \in Ids :
          /\ p # q
          /\ NotifyEvents(p) = <<Action_notify_down(p)>>
          /\ NotifyEvents(q) = <<Action_notify_up(q)>>
          /\ p \notin Range(Cur.active_view)
          /\ q \in Range(Cur.active_view)

(***************************************************************************)
(* C21: random walks are bounded by the TTL.                               *)
(***************************************************************************)
\* C21: a ForwardJoin or Shuffle created with ttl = active_random_walk_len is
\* forwarded with a ttl one smaller at each hop, is never forwarded by a node
\* that received it with ttl = 0, and therefore is forwarded at most
\* active_random_walk_len times (in any cluster, with any random choices)
\* before it is absorbed or dropped: every queued walk message that has been
\* forwarded h times carries ttl = active_random_walk_len - h, so h is at
\* most active_random_walk_len.
C21_WalkBounded ==
    \A n \in DOMAIN nodes :
        /\ Len(host.hops[n]) = Len(nodes[n].actions)
        /\ \A k \in 1..Len(nodes[n].actions) :
              LET a == nodes[n].actions[k]
                  arwl == nodes[n].options.active_random_walk_len
              IN  IsWalk(a) =>
                      /\ host.hops[n][k] + as_u8(a.message.ttl) = arwl
                      /\ host.hops[n][k] <= arwl

\* a ForwardJoin has been forwarded active_random_walk_len = 5 times
C21_Witness ==
    \E n \in DOMAIN nodes : \E k \in 1..Len(nodes[n].actions) :
        /\ IsForwardJoin(nodes[n].actions[k])
        /\ is_expired(nodes[n].actions[k].message.ttl)
        /\ host.hops[n][k] = DEFAULT_ACTIVE_RANDOM_WALK_LEN

\* a Shuffle has been forwarded once and its ttl is 0
C21_WitnessShuffle ==
    \E n \in DOMAIN nodes : \E k \in 1..Len(nodes[n].actions) :
        /\ IsShuffle(nodes[n].actions[k])
        /\ is_expired(nodes[n].actions[k].message.ttl)
        /\ host.hops[n][k] = 1

(***************************************************************************)
(* C22: lowering max_active_view_size.                                     *)
(***************************************************************************)
\* the active view is larger than the lowered max_active_view_size
Oversized ==
    /\ host.resized
    /\ Len(nodes[Local].active_view) > nodes[Local].options.max_active_view_size

\* C22: if max_active_view_size is lowered through options_mut to a value
\* m >= 1 smaller than the current active view size, then subsequent
\* admissions of new peers to the active view bring the active view size
\* down, so that after finitely many admissions the active view size is at
\* most m.
C22_ResizeConverges == [](Oversized => <>(~Oversized))

\* what an admission after the resize does to the size of the active view:
\* it takes one member out and puts one in
ResizedSizeKept ==
    (host.resized /\ last.call.op = "handle_protocol_message" /\ Returned) =>
        /\ Len(Cur.active_view) = Len(last.pre.active_view)
        /\ Cardinality(Added) = 1
        /\ Cardinality(Removed) = 1

\* an admission to an active view that is larger than max_active_view_size
C22_Oversized ==
    /\ Oversized
    /\ last.call.op = "handle_protocol_message"
    /\ Added # {}

(***************************************************************************)
(* C29: the active views are symmetric at quiescence.                      *)
(***************************************************************************)
\* no action is pending anywhere (a Send is in flight while it is queued)
AllQueuesEmpty == \A n \in DOMAIN nodes : nodes[n].actions = <<>>

Symmetric ==
    \A p, q \in DOMAIN nodes :
        q \in Range(nodes[p].active_view) <=> p \in Range(nodes[q].active_view)

\* C29: in a cluster where every node stays alive, every Send is delivered
\* to its destination and each node's actions are consumed in FIFO order,
\* whenever all action queues are empty and no message is in flight, for all
\* nodes p and q: q is in p's active view if and only if p is in q's active
\* view (for any joins, host disconnects, maintenance calls and random
\* choices that led to that state).
C29_SymmetricAtQuiescence == AllQueuesEmpty => Symmetric

\* the overlay came to rest after an eviction: a node has a peer in its
\* passive view, and links exist
C29_Witness ==
    /\ AllQueuesEmpty
    /\ AllJoined
    /\ \E p \in DOMAIN nodes :
          nodes[p].passive_view # <<>> /\ nodes[p].active_view # <<>>

(***************************************************************************)
(* C30: the message exchange dies out.                                     *)
(***************************************************************************)
\* C30: for any bounded cluster with any option values whose view maxima
\* are at least 1, once the hosts stop issuing join, disconnect and
\* maintenance calls, every execution that keeps polling actions and
\* delivering each Send to its destination reaches a state in which all
\* action queues are empty.  (The hosts make finitely many calls, so they
\* stop; an execution is followed while its queues stay within MaxPending.)
C30_ExchangeDiesOut == AllJoined ~> (AllQueuesEmpty \/ Overflow)

\* the odd node out: with max_active_view_size = 1, a node without a
\* neighbour asks a peer of its passive view with high priority
C30_OddNodeOut ==
    /\ AllJoined
    /\ ~Overflow
    /\ \E n \in DOMAIN nodes :
          /\ nodes[n].options.max_active_view_size = 1
          /\ nodes[n].active_view = <<>>
          /\ \E k \in 1..Len(nodes[n].actions) : \E p \in DOMAIN nodes :
                nodes[n].actions[k] = Action_send(p, msg_neighbor(n, TRUE))

(***************************************************************************)
(* C31: no connection to a current active peer is torn down.               *)
(***************************************************************************)
\* the peers named in the Action::Disconnect actions the latest call enqueued
TornDown ==
    {Enqueued[k].node : k \in {j \in 1..Len(Enqueued) : Enqueued[j].type = "Disconnect"}}

\* C31: when a public call returns, every peer named in an
\* Action::Disconnect the call enqueued is absent from the active view,
\* and the call added at most one peer to the active view and removed at
\* most one peer from it.
C31_NoTeardownOfActivePeer ==
    (IsCall /\ Returned) =>
        /\ TornDown \cap Range(Cur.active_view) = {}
        /\ Cardinality(Added) <= 1
        /\ Cardinality(Removed) <= 1

\* a call that admitted a peer into a full active view: it evicted one
\* peer, asked the host to close the connection to it, and kept the rest
C31_Witness ==
    /\ IsCall /\ Returned
    /\ Cardinality(Added) = 1
    /\ Cardinality(Removed) = 1
    /\ TornDown = Removed
    /\ Len(Cur.active_view) = 2

\* a message from an active peer that is handled without a teardown: the
\* sender stays in the active view and no Action::Disconnect is enqueued
C31_WitnessKept ==
    /\ Returned
    /\ last.call.op = "handle_protocol_message"
    /\ Handled.type \in {"ForwardJoin", "Shuffle", "ShuffleReply"}
    /\ Contains(last.pre.active_view, Handled.sender)
    /\ Contains(Cur.active_view, Handled.sender)
    /\ TornDown = {}

\* a ForwardJoin whose new node is admitted at the cost of its sender: the
\* sender is evicted and the connection to it is closed twice
C31_WitnessSenderEvicted ==
    /\ Returned
    /\ Handled.type = "ForwardJoin"
    /\ Removed = {Handled.sender}
    /\ Added = {Handled.new_node}
    /\ Cardinality({k \in 1..Len(Enqueued) :
                       Enqueued[k] = Action_disconnect(Handled.sender)}) = 2

\* a Disconnect from an active peer: the peer is removed, the connection to
\* it is closed, and a passive peer is asked to be a neighbour but is not
\* yet added
C31_WitnessDisconnected ==
    /\ Returned
    /\ Handled.type = "Disconnect"
    /\ Removed = {Handled.sender}
    /\ TornDown = Removed
    /\ Added = {}
    /\ \E k \in 1..Len(Enqueued) :
          /\ IsSendOf(Enqueued[k], "Neighbor")
          /\ Contains(last.pre.passive_view, Enqueued[k].destination)

====
